---- MODULE Spec2Model ----
(***************************************************************************)
(* Verification model of parquet_flask: the metadata store client          *)
(* (aws/aws_ddb.py, AwsDdb), the ingestion orchestrator                    *)
(* (v1/ingest_aws_json.py, IngestAwsJson) and the filesystem helpers       *)
(* (utils/file_utils.py, FileUtils).                                       *)
(***************************************************************************)
EXTENDS Integers, Sequences, FiniteSets, TLC

\* Python's None.
None == "None"

(***************************************************************************)
(* Bounds of the model.                                                    *)
(***************************************************************************)
\* number of clients calling AwsDdb.add_one_item concurrently
NumCallers == 2
\* number of IngestAwsJson.ingest attempts running concurrently
NumAttempts == 2

Callers == 1..NumCallers
Attempts == 1..NumAttempts

(***************************************************************************)
(* State.                                                                  *)
(***************************************************************************)
VARIABLES
  rangeKey,   \* AwsDdbProps.range_key of the table: None, or the attribute name
  tbl,        \* the DynamoDB table: full key -> item, or no item
  tbl0,       \* the table as it was before any call (history)
  call,       \* per caller: the position and locals of its add_one_item call
  store,      \* the metadata table behind MetadataTblIO: key -> item, or no item
  dirs,       \* the working directories that exist on the local filesystem
  files,      \* the regular files that exist on the local filesystem
  lake,       \* the writes IngestNewJsonFile.ingest has completed
  att,        \* per ingestion attempt: its props, position and fields
  items,      \* the table the read paths of AwsDdb read, in scan order
  read,       \* the read call on that table: its position, locals and result
  ddbProps,   \* the AwsDdbProps object a caller built and holds
  client,     \* per AwsDdb client: the props object it holds, None before __init__
  pcall,      \* the last call on the props or on a client, and how it ended
  gunzip      \* the last call of gunzip_file_os, and how it ended

ddbVars == <<rangeKey, tbl, tbl0, call>>

ingestVars == <<store, dirs, files, lake, att>>

readVars == <<items, read>>

propsVars == <<ddbProps, client, pcall>>

vars ==
  <<rangeKey, tbl, tbl0, call, store, dirs, files, lake, att, items, read,
    ddbProps, client, pcall, gunzip>>

(***************************************************************************)
(* aws/aws_ddb.py: AwsDdb.add_one_item and the store's conditional put.    *)
(***************************************************************************)
HashVals == {"h1", "h2"}
RangeVals == {"r1", "r2"}

\* Attribute names of the key schema (AwsDdbProps.hash_key, .range_key).
HashAttr == "hash_key"
RangeAttr == "range_key"

\* A boto3 condition Attr(name).eq(val) / Attr(name).ne(val).
Attr(name, op, val) == [attr |-> name, op |-> op, val |-> val]

\* Python's `a and b` on two condition objects: boto3's ConditionBase defines
\* neither __bool__ nor __len__, so `a` is truthy and the expression is `b`.
PyAnd(a, b) == b

\* `range_val is not None and self.__props.range_key is not None`
UsesRange(rk, rv) == rv # None /\ rk # None

\* item_dict after lines 240-242: the caller's attributes plus the key.
BuildItem(body, hv, rv, rk) ==
  [hash_key |-> hv, range_key |-> IF UsesRange(rk, rv) THEN rv ELSE None, body |-> body]

\* A faulty variant of AddOneItemCondition: the two branches of `replace` swapped.
AddOneItemConditionSwapped(rk, hv, rv, replace) ==
  IF replace
    THEN IF UsesRange(rk, rv)
           THEN PyAnd(Attr(HashAttr, "ne", hv), Attr(RangeAttr, "ne", rv))
           ELSE Attr(HashAttr, "ne", hv)
    ELSE IF UsesRange(rk, rv)
           THEN PyAnd(Attr(HashAttr, "eq", hv), Attr(RangeAttr, "ne", rv))
           ELSE Attr(HashAttr, "eq", hv)

\* The ConditionExpression built at lines 248-257.
AddOneItemCondition(rk, hv, rv, replace) ==
  IF replace
    THEN IF UsesRange(rk, rv)
           THEN PyAnd(Attr(HashAttr, "eq", hv), Attr(RangeAttr, "ne", rv))
           ELSE Attr(HashAttr, "eq", hv)
    ELSE IF UsesRange(rk, rv)
           THEN PyAnd(Attr(HashAttr, "ne", hv), Attr(RangeAttr, "ne", rv))
           ELSE Attr(HashAttr, "ne", hv)

\* No item: what get_item answers for a key the table does not hold.
NoItem == [hash_key |-> None, range_key |-> None, body |-> None]

IsItem(x) == x.hash_key # None

\* The full primary key of an item.
KeyOf(item) == <<item.hash_key, item.range_key>>

\* The store evaluates a ConditionExpression against the item that holds the
\* same primary key as the item being put, if there is one. A comparison with
\* an attribute that does not exist: `=` is false, `<>` is true.
EvalCondition(existing, cond) ==
  LET present == IsItem(existing) /\ existing[cond.attr] # None
  IN  IF cond.op = "eq"
        THEN present /\ existing[cond.attr] = cond.val
        ELSE ~present \/ existing[cond.attr] # cond.val

\* A faulty variant of PutItem: the attributes of an item that exists are
\* kept, as an update would do.
PutItemKeepsAttributes(t, rk, item, cond) ==
  IF rk # None /\ item.range_key = None
    THEN [result |-> "ValidationException", tbl |-> t]
    ELSE IF EvalCondition(t[KeyOf(item)], cond)
           THEN [result |-> "ok",
                 tbl |-> [t EXCEPT ![KeyOf(item)] =
                            IF IsItem(@) THEN [item EXCEPT !.body = t[KeyOf(item)].body]
                                         ELSE item]]
           ELSE [result |-> "ConditionalCheckFailedException", tbl |-> t]

\* A faulty variant of PutItem: the item is written although the condition
\* failed.
PutItemWritesOnFailure(t, rk, item, cond) ==
  IF rk # None /\ item.range_key = None
    THEN [result |-> "ValidationException", tbl |-> t]
    ELSE [result |-> IF EvalCondition(t[KeyOf(item)], cond)
                       THEN "ok" ELSE "ConditionalCheckFailedException",
          tbl |-> [t EXCEPT ![KeyOf(item)] = item]]

\* Table.put_item(Item, ConditionExpression), one atomic request (line 259):
\* the outcome and the table after it.
PutItem(t, rk, item, cond) ==
  IF rk # None /\ item.range_key = None
    THEN [result |-> "ValidationException", tbl |-> t]
    ELSE IF EvalCondition(t[KeyOf(item)], cond)
           THEN [result |-> "ok", tbl |-> [t EXCEPT ![KeyOf(item)] = item]]
           ELSE [result |-> "ConditionalCheckFailedException", tbl |-> t]

Keys == HashVals \X (RangeVals \cup {None})

\* The keys a table with range key attribute rk can hold.
TableKeys(rk) == {k \in Keys : (k[2] = None) <=> (rk = None)}

\* The attributes caller c puts besides the key.
BodyOf(c) == IF c = 1 THEN "c1" ELSE IF c = 2 THEN "c2" ELSE "c3"

\* AwsDdb.get_one_item: the item under the key, or no item.
GetOneItem(t, rk, hv, rv) == t[<<hv, IF UsesRange(rk, rv) THEN rv ELSE None>>]

(***************************************************************************)
(* aws/aws_ddb.py: AwsDdbProps, the construction of AwsDdb, has_table.     *)
(***************************************************************************)
\* The number of AwsDdb clients constructed.
NumClients == 2

Clients == 1..NumClients

VALID_KEY_TYPE == {"S", "N", "B"}

\* AwsDdbProps.__init__, lines 30-35.
NewDdbProps ==
  [tbl_name |-> None, hash_key |-> None, range_key |-> None,
   hash_key_type |-> "S", range_key_type |-> "S"]

\* What a caller passes to the setters.
TblNames == {"t1", "t2"}

KeyNames == {"k1", None}

KeyTypeArgs == VALID_KEY_TYPE \cup {"X", None}

\* A faulty variant of IsValidKeyType: every value is let through.
IsValidKeyTypeAny(val) == TRUE

\* The test of the two type setters, lines 86 and 101.
IsValidKeyType(val) == val \in VALID_KEY_TYPE

\* The props object a client holds: the one its caller built and passed, or
\* the one the default argument of AwsDdb.__init__ (line 107) made when the
\* class was defined, which no caller holds.
PropsOf(ref, callers_props) == IF ref = "default" THEN NewDdbProps ELSE callers_props

\* What the store may answer to describe_table.
DescribeAnswers ==
  {"ok", "ResourceNotFoundException", "AccessDeniedException",
   "ProvisionedThroughputExceededException", "EndpointConnectionError"}

\* A faulty variant of HasTableResult: tbl_details are returned whatever the
\* store answers.
HasTableResultAlwaysDetails(tbl_name, answer) ==
  IF tbl_name = None
    THEN [ret |-> None, raised |-> "ValueError"]
    ELSE [ret |-> "tbl_details", raised |-> None]

\* has_table, lines 114-122: ValueError without a table name; the details
\* describe_table returned; None for whatever describe_table raised.
HasTableResult(tbl_name, answer) ==
  IF tbl_name = None
    THEN [ret |-> None, raised |-> "ValueError"]
    ELSE IF answer = "ok"
           THEN [ret |-> "tbl_details", raised |-> None]
           ELSE [ret |-> None, raised |-> None]

\* No call on props or client has been made.
IdlePropsCall ==
  [op |-> None, val |-> None, client |-> 0, answer |-> None, ret |-> None, raised |-> None]

IdleProps ==
  /\ ddbProps = NewDdbProps
  /\ client = [c \in Clients |-> None]
  /\ pcall = IdlePropsCall

(***************************************************************************)
(* aws/aws_ddb.py: the values of an item as boto3 hands them out, and      *)
(* _replace_decimals. A value is a record of its Python class, its number  *)
(* <<integral part, tenths>> (or string code), and for a list, dict or set *)
(* its elements in order, a dict with the keys of the elements.            *)
(***************************************************************************)
PyValue(cls, num, keys, elems) == [cls |-> cls, num |-> num, keys |-> keys, elems |-> elems]

Dec(i, f) == PyValue("Decimal", <<i, f>>, <<>>, <<>>)

PyInt(i) == PyValue("int", <<i, 0>>, <<>>, <<>>)

PyFloat(i, f) == PyValue("float", <<i, f>>, <<>>, <<>>)

Str(n) == PyValue("str", <<n, 0>>, <<>>, <<>>)

\* A DynamoDB number set: boto3 hands it out as a Python set of Decimal.
NumberSet(s) == PyValue("set", <<0, 0>>, <<>>, s)

List(s) == PyValue("list", <<0, 0>>, <<>>, s)

Dict(ks, vs) == PyValue("dict", <<0, 0>>, ks, vs)

NoneVal == PyValue("NoneType", <<0, 0>>, <<>>, <<>>)

\* obj[key] of a dict that has the key.
DictGet(obj, key) == obj.elems[CHOOSE k \in DOMAIN obj.keys : obj.keys[k] = key]

\* A faulty variant of ReplaceDecimals: the elements of a list are left as
\* they are.
RECURSIVE ReplaceDecimalsSkipsLists(_)
ReplaceDecimalsSkipsLists(obj) ==
  IF obj.cls = "dict"
    THEN Dict(obj.keys, [k \in DOMAIN obj.elems |-> ReplaceDecimalsSkipsLists(obj.elems[k])])
    ELSE IF obj.cls = "Decimal"
           THEN IF obj.num[2] = 0 THEN PyInt(obj.num[1]) ELSE PyFloat(obj.num[1], obj.num[2])
           ELSE obj

\* _replace_decimals, lines 174-197: lists and dicts are walked, a Decimal
\* becomes an int when obj % 1 == 0 and a float otherwise, anything else is
\* returned as it is.
RECURSIVE ReplaceDecimals(_)
ReplaceDecimals(obj) ==
  IF obj.cls = "list"
    THEN List([k \in DOMAIN obj.elems |-> ReplaceDecimals(obj.elems[k])])
    ELSE IF obj.cls = "dict"
           THEN Dict(obj.keys, [k \in DOMAIN obj.elems |-> ReplaceDecimals(obj.elems[k])])
           ELSE IF obj.cls = "Decimal"
                  THEN IF obj.num[2] = 0 THEN PyInt(obj.num[1])
                                         ELSE PyFloat(obj.num[1], obj.num[2])
                  ELSE obj

\* No Decimal is left in the value, at any depth.
RECURSIVE NoDecimal(_)
NoDecimal(obj) ==
  /\ obj.cls # "Decimal"
  /\ \A k \in DOMAIN obj.elems : NoDecimal(obj.elems[k])

\* The nesting depth of the attribute values the model stores.
MaxDepth == 2

\* The number of items of the tables that are scanned.
MaxItems == 3

Scalars == {Dec(3, 0), Dec(3, 5), Str(0), NumberSet(<<Dec(3, 0)>>)}

\* The values of nesting depth d at most: scalars, lists of up to one value
\* of smaller depth or of two scalars, dicts of up to one key.
RECURSIVE ValuesOfDepth(_)
ValuesOfDepth(d) ==
  IF d = 0
    THEN Scalars
    ELSE LET S == ValuesOfDepth(d - 1)
         IN  S \cup {List(<<>>), Dict(<<>>, <<>>)}
               \cup {List(<<x>>) : x \in S}
               \cup {List(<<x, y>>) : x \in Scalars, y \in Scalars}
               \cup {Dict(<<"k">>, <<x>>) : x \in S}

\* The item with hash key value Str(n) and attribute v.
Item(n, v) == Dict(<<"id", "v">>, <<Str(n), v>>)

\* The tables read: one item with any attribute value, or up to MaxItems items
\* in the order a scan meets them, with scalar attributes.
ReadTables ==
  {<<Item(1, v)>> : v \in ValuesOfDepth(MaxDepth)}
    \cup UNION {{[k \in 1..n |-> Item(k, f[k])] : f \in [1..n -> {Dec(3, 0), Dec(3, 5), Str(0)}]} :
                  n \in 0..MaxItems}

\* ScanFilter=conditions_dict: every item, or the items whose v equals 3.
ScanFilters == {"any", "v EQ 3"}

Matches(cond, item) == cond = "any" \/ DictGet(item, "v") = Dec(3, 0)

\* The matching items of the table, in scan order.
Matching(t, cond) ==
  LET Test(item) == Matches(cond, item) IN SelectSeq(t, Test)

\* Table.scan(Limit, ScanFilter, ExclusiveStartKey): the store evaluates the
\* e items after position start and returns those that match; LastEvaluatedKey
\* is in the response when items are left, and may be when none is.
ScanPage(t, cond, start, e, more) ==
  [Items |-> Matching(SubSeq(t, start + 1, start + e), cond),
   LastEvaluatedKey |-> [present |-> (start + e < Len(t)) \/ more, key |-> start + e]]

\* How many items one request may evaluate: at most Limit, at least one when
\* items are left (a response is cut at 1 MB of data as well).
PageSizes(t, start, limit) ==
  IF start >= Len(t)
    THEN {0}
    ELSE 1..(IF limit < Len(t) - start THEN limit ELSE Len(t) - start)

\* A faulty variant of HasMore: the scan stops after the first page.
HasMoreNever(item_result) == FALSE

\* scan_tbl, line 274: the loop condition.
HasMore(item_result) == item_result.LastEvaluatedKey.present

\* The limits of the first and of the later scan requests (lines 270, 276).
FirstLimit == 1

NextLimit == 100

NoPage == [Items |-> <<>>, LastEvaluatedKey |-> [present |-> FALSE, key |-> 0]]

\* No read call has been made.
IdleReadCall ==
  [pc |-> "idle", op |-> None, cond |-> None, item_result |-> NoPage,
   all_results |-> <<>>, pages |-> 0, empty_pages |-> 0, ret |-> NoneVal, exc |-> None]

IdleRead ==
  /\ items = <<>>
  /\ read = IdleReadCall

(***************************************************************************)
(* Strings. A string is a sequence of characters; the three characters of  *)
(* a ".gz" or ".GZ" suffix and the scheme "s3:" are each one element.      *)
(***************************************************************************)
\* str.replace(old, ''): every occurrence of old, left to right, removed.
RECURSIVE RemoveAll(_, _)
RemoveAll(str, old) ==
  IF Len(old) = 0 \/ Len(str) < Len(old)
    THEN str
    ELSE IF SubSeq(str, 1, Len(old)) = old
           THEN RemoveAll(SubSeq(str, Len(old) + 1, Len(str)), old)
           ELSE <<Head(str)>> \o RemoveAll(Tail(str), old)

Whitespace == {" ", "\t"}

RECURSIVE LStrip(_)
LStrip(str) == IF str # <<>> /\ Head(str) \in Whitespace THEN LStrip(Tail(str)) ELSE str

RECURSIVE RStrip(_)
RStrip(str) ==
  IF str # <<>> /\ str[Len(str)] \in Whitespace
    THEN RStrip(SubSeq(str, 1, Len(str) - 1))
    ELSE str

\* str.strip()
Strip(str) == RStrip(LStrip(str))

\* str.lower()
Lower(str) == [i \in 1..Len(str) |-> IF str[i] = ".GZ" THEN ".gz" ELSE str[i]]

\* os.path.basename: what follows the last "/".
Basename(path) ==
  LET slashes == {i \in 1..Len(path) : path[i] = "/"}
      last == IF slashes = {} THEN 0 ELSE CHOOSE i \in slashes : \A j \in slashes : j <= i
  IN  SubSeq(path, last + 1, Len(path))

\* A faulty variant of EndsWithGz: the suffix is compared as it is written.
EndsWithGzCaseSensitive(name) == Len(name) > 0 /\ name[Len(name)] = ".gz"

\* saved_file_name.lower().endswith('.gz')
EndsWithGz(name) == Len(name) > 0 /\ Lower(name)[Len(name)] = ".gz"

(***************************************************************************)
(* utils/file_utils.py: FileUtils on a filesystem given as the set of the  *)
(* regular files that exist.                                               *)
(***************************************************************************)
\* A local path: a directory and a file name. NoPath is Python's None.
NoPath == [dir |-> 0, name |-> <<>>]

\* FileUtils.file_exist(path): Path(None) raises TypeError, so the operator is
\* used on paths only.
FileExist(fs, path) == path \in fs

\* A faulty variant of DelFile: the file is left where it is.
DelFileLeavesFile(fs, path) ==
  IF path = NoPath THEN [raised |-> "TypeError", files |-> fs]
                   ELSE [raised |-> None, files |-> fs]

\* FileUtils.del_file(path): file_exist(None) evaluates Path(None), which
\* raises TypeError; otherwise the file is unlinked when it exists.
DelFile(fs, path) ==
  IF path = NoPath
    THEN [raised |-> "TypeError", files |-> fs]
    ELSE [raised |-> None, files |-> IF FileExist(fs, path) THEN fs \ {path} ELSE fs]

\* What the gunzip child process can do: decompress silently; fail with a
\* message on stderr, leaving the input and no output; or decompress and warn
\* on stderr (trailing garbage after the compressed data is ignored).
GunzipOutcomes == {"ok", "error", "warning"}

\* FileUtils.gunzip_file_os(zipped_file_path, output_file_path): the exception
\* raised (or None), the path returned and the files afterwards.
GunzipFileOs(fs, zipped, output, outcome) ==
  IF ~FileExist(fs, zipped)
    THEN [raised |-> "ValueError", path |-> NoPath, files |-> fs]
    ELSE
      LET default_output_path == [zipped EXCEPT !.name = SubSeq(@, 1, Len(@) - 1)]
          after == IF outcome \in {"ok", "warning"}
                     THEN (fs \ {zipped}) \cup {default_output_path}
                     ELSE fs
          out == IF output = NoPath THEN default_output_path ELSE output
      IN  IF outcome # "ok"
            THEN [raised |-> "RuntimeError", path |-> NoPath, files |-> after]
            ELSE IF ~FileExist(after, default_output_path)
                   THEN [raised |-> "ValueError", path |-> NoPath, files |-> after]
                   ELSE IF FileExist(after, out) /\ default_output_path # out
                          THEN [raised |-> None, path |-> out,
                                files |-> (after \ {default_output_path}) \cup {out}]
                          ELSE [raised |-> None, path |-> out, files |-> after]

\* No call of gunzip_file_os has been made.
IdleGunzipCall ==
  [called |-> FALSE, zipped |-> NoPath, output |-> NoPath, outcome |-> None,
   raised |-> None, path |-> NoPath]

IdleGunzip == gunzip = IdleGunzipCall

(***************************************************************************)
(* v1/ingest_aws_json.py: IngestAwsJson.                                   *)
(***************************************************************************)
S3Prefix == <<"s3:", "/", "/", "bucket", "/">>

\* The object names ingested: a plain name, a name made of hexadecimal digits
\* only, and a gzipped object with an upper-case suffix.
ObjectNames == {<<"j">>, <<"a">>, <<"j", ".GZ">>}

\* props.s3_url
Urls == {S3Prefix \o n : n \in ObjectNames}

\* The SHA-512 digests in play, as hexadecimal strings.
Digests == {<<"a", "b">>, <<"b", "b">>}

\* FileUtils.get_checksum of the downloaded object.
GetChecksum(path) == <<"a", "b">>

\* The side-car document "<sha-512><space or tab><s3 json filename>" that
\* carries digest d for the object at url.
SideCar(d, url) == d \o <<" ">> \o Basename(url)

\* No side-car document can be read.
NoSideCar == <<>>

\* __get_s3_sha512: None (here <<None>>) when the side-car cannot be read,
\* otherwise its content with the object's basename removed, stripped.
GetS3Sha512(doc, url) ==
  IF doc = NoSideCar THEN <<None>> ELSE Strip(RemoveAll(doc, Basename(url)))

\* __compare_sha512: (sha512_result, sha512_cause)
CompareSha512(s3_sha512, file_sha512) ==
  IF s3_sha512 = <<None>>
    THEN [result |-> "False", cause |-> <<"missing S3 sha512">>]
    ELSE IF s3_sha512 = file_sha512
           THEN [result |-> "True", cause |-> <<>>]
           ELSE [result |-> "False",
                 cause |-> <<"mismatched sha512: ">> \o s3_sha512 \o <<" vs ">> \o file_sha512]

\* A (body, status) pair returned by ingest; job_id 0, cause <<None>> and
\* details None are keys the body does not carry. NoResp: nothing returned yet.
Resp(status, message, job_id, cause, details) ==
  [status |-> status, message |-> message, job_id |-> job_id, cause |-> cause,
   details |-> details]

NoResp == Resp(0, None, 0, <<None>>, None)

\* A faulty variant of CheckExistingVerdict: the already-ingested test left out.
CheckExistingVerdictNoDuplicateTest(found, is_replacing) ==
  IF ~found /\ is_replacing THEN "new" ELSE "proceed"

\* A faulty variant of CheckExistingVerdict: the unable-to-replace test left out.
CheckExistingVerdictNoNewTest(found, is_replacing) ==
  IF found /\ ~is_replacing THEN "duplicate" ELSE "proceed"

\* ingest, lines 231-237: the decision taken on the looked-up record.
CheckExistingVerdict(found, is_replacing) ==
  IF ~found /\ is_replacing
    THEN "new"
    ELSE IF found /\ ~is_replacing THEN "duplicate" ELSE "proceed"

\* The record built at lines 183-194 (the time stamps are left out).
NewRecord(a) ==
  [job_id |-> a.uuid, checksum |-> a.file_sha512,
   checksum_validation |-> a.sha512_result, checksum_cause |-> a.sha512_cause,
   records |-> 1]

\* A record left by an earlier ingestion, job id 0.
OldRecord ==
  [job_id |-> 0, checksum |-> <<"a", "b">>, checksum_validation |-> "True",
   checksum_cause |-> <<>>, records |-> 1]

NoRecord ==
  [hash_key |-> None, range_key |-> None,
   body |-> [job_id |-> 0, checksum |-> <<>>, checksum_validation |-> None,
             checksum_cause |-> <<None>>, records |-> 0]]

\* MetadataTblIO.insert_record / replace_record: add_one_item on the table
\* whose hash key is the s3_url and which has no range key.
MetadataPut(t, record, s3_url, replace) ==
  PutItem(t, None, BuildItem(record, s3_url, None, None),
          AddOneItemCondition(None, s3_url, None, replace))

\* MetadataTblIO.get_by_s3_url
GetByS3Url(t, s3_url) == GetOneItem(t, None, s3_url, None)

\* AwsS3.download(working_dir): the local path of the downloaded object, which
\* keeps the object's name.
S3Download(working_dir, s3_url) == [dir |-> working_dir, name |-> Basename(s3_url)]

IdleCall ==
  [pc |-> "idle", hash_val |-> None, range_val |-> None, replace |-> FALSE,
   item |-> NoItem, cond |-> Attr(None, None, None), result |-> None, existed |-> FALSE,
   unchanged |-> FALSE]

\* A faulty variant of NewAttempt: the working directory is one fixed place.
NewAttemptFixedDir(a, url, replacing, wait) ==
  [s3_url |-> url, is_replacing |-> replacing, wait_till_complete |-> wait,
   uuid |-> a, working_dir |-> 0,
   pc |-> "start", saved_file_name |-> NoPath, file_sha512 |-> <<None>>,
   sha512_result |-> None, sha512_cause |-> <<None>>,
   ret |-> NoResp, out |-> NoResp, exc |-> None, detached |-> FALSE,
   found |-> None, failed_at |-> None, effects |-> {}, puts |-> 0,
   put_result |-> None, sidecar |-> <<None>>, artifacts |-> {}, steps |-> <<>>]

\* IngestAwsJsonProps.__init__ and IngestAwsJson.__init__ for attempt a: the
\* props carry a job id and a working directory of their own (two uuid4 draws).
NewAttempt(a, url, replacing, wait) ==
  [s3_url |-> url, is_replacing |-> replacing, wait_till_complete |-> wait,
   uuid |-> a, working_dir |-> a,
   pc |-> "start", saved_file_name |-> NoPath, file_sha512 |-> <<None>>,
   sha512_result |-> None, sha512_cause |-> <<None>>,
   ret |-> NoResp, out |-> NoResp, exc |-> None, detached |-> FALSE,
   \* history of the attempt
   found |-> None, failed_at |-> None, effects |-> {}, puts |-> 0,
   put_result |-> None, sidecar |-> <<None>>, artifacts |-> {}, steps |-> <<>>]

\* The one IngestAwsJsonProps object that the default argument of
\* IngestAwsJson.__init__ (line 133) creates when the class is defined.
DefaultProps == -1

\* props.s3_url of props whose s3_url was never set.
NoUrl == <<None>>

\* IngestAwsJson() for attempt a: the orchestrator holds the default props
\* object, with that object's job id and working directory, no s3_url,
\* is_replacing False and wait_till_complete True (lines 32-39).
DefaultAttempt(a) ==
  [NewAttempt(a, NoUrl, FALSE, TRUE) EXCEPT !.uuid = DefaultProps,
                                            !.working_dir = DefaultProps]

\* The metadata table holds a record of an earlier ingestion for any of the
\* objects; nothing exists in the working area.
InitStore ==
  {t \in [{<<u, None>> : u \in Urls} -> {NoRecord} \cup {BuildItem(OldRecord, u, None, None) : u \in Urls}] :
     \A u \in Urls : IsItem(t[<<u, None>>]) => t[<<u, None>>].hash_key = u}

IdleDdb ==
  /\ rangeKey = None
  /\ tbl = [k \in Keys |-> NoItem]
  /\ tbl0 = tbl
  /\ call = [c \in Callers |-> IdleCall]

IdleIngest ==
  /\ store = [k \in {<<u, None>> : u \in Urls} |-> NoRecord]
  /\ dirs = {}
  /\ files = {}
  /\ lake = {}
  /\ att = [a \in Attempts |-> NewAttempt(a, S3Prefix \o <<"j">>, FALSE, TRUE)]

InitDdb ==
  /\ IdleRead
  /\ IdleProps
  /\ IdleGunzip
  /\ rangeKey \in {None, RangeAttr}
  /\ tbl \in {t \in [Keys -> {NoItem} \cup {BuildItem("init", k[1], k[2], RangeAttr) : k \in Keys}] :
                \A k \in Keys : IsItem(t[k]) => (k \in TableKeys(rangeKey) /\ KeyOf(t[k]) = k)}
  /\ tbl0 = tbl
  /\ call = [c \in Callers |-> IdleCall]
  /\ IdleIngest

\* add_one_item, lines 238-258: the item and the condition are built locally.
AddOneItemBuild(c) ==
  /\ call[c].pc = "idle"
  /\ \E hv \in HashVals, rv \in RangeVals \cup {None}, replace \in BOOLEAN :
       call' = [call EXCEPT ![c] =
                  [@ EXCEPT !.pc = "put", !.hash_val = hv, !.range_val = rv,
                            !.replace = replace,
                            !.item = BuildItem(BodyOf(c), hv, rv, rangeKey),
                            !.cond = AddOneItemCondition(rangeKey, hv, rv, replace)]]
  /\ UNCHANGED <<rangeKey, tbl, tbl0>>
  /\ UNCHANGED <<ingestVars, readVars, propsVars, gunzip>>

\* add_one_item, lines 259-264: the single put_item request; a store error
\* propagates to the caller, otherwise the method returns None.
AddOneItemPut(c) ==
  /\ call[c].pc = "put"
  /\ LET r == PutItem(tbl, rangeKey, call[c].item, call[c].cond)
     IN  /\ tbl' = r.tbl
         /\ call' = [call EXCEPT ![c] =
                       [@ EXCEPT !.pc = IF r.result = "ok" THEN "returned" ELSE "raised",
                                 !.result = r.result,
                                 !.existed = IsItem(tbl[KeyOf(call[c].item)]),
                                 !.unchanged = (r.tbl = tbl)]]
  /\ UNCHANGED <<rangeKey, tbl0>>
  /\ UNCHANGED <<ingestVars, readVars, propsVars, gunzip>>

NextDdb ==
  \E c \in Callers : AddOneItemBuild(c) \/ AddOneItemPut(c)

SpecDdb == InitDdb /\ [][NextDdb]_vars

(***************************************************************************)
(* IngestAwsJson.ingest, one action per blocking step of an attempt.       *)
(***************************************************************************)
\* The props of an attempt as a number: attempts differ in nothing else, so
\* they are numbered in the order of their props.
PropsRank(a) ==
  IF a.uuid = DefaultProps
    THEN 0
    ELSE 1 + (IF a.is_replacing THEN 2 ELSE 0) + (IF a.wait_till_complete THEN 1 ELSE 0)

\* The attempts ingest one object (attempts on different objects share neither
\* a key of the metadata table nor a working directory); each is constructed
\* with props of its own that name the object, or without props. The table
\* may hold a record of an earlier ingestion of the object.
Init ==
  /\ IdleDdb
  /\ IdleRead
  /\ IdleProps
  /\ IdleGunzip
  /\ dirs = {}
  /\ files = {}
  /\ lake = {}
  /\ \E u \in Urls :
       /\ store \in {t \in InitStore : \A v \in Urls \ {u} : ~IsItem(t[<<v, None>>])}
       /\ att \in {f \in [Attempts -> {NewAttempt(a, u, r, w) :
                                         a \in Attempts, r \in BOOLEAN, w \in BOOLEAN}
                                      \cup {DefaultAttempt(a) : a \in Attempts}] :
                     /\ \A a \in Attempts :
                           \/ f[a] = DefaultAttempt(a)
                           \/ \E r \in BOOLEAN, w \in BOOLEAN : f[a] = NewAttempt(a, u, r, w)
                     /\ \A a \in Attempts \ {NumAttempts} :
                           PropsRank(f[a]) <= PropsRank(f[a + 1])}

\* The attempt calls step name on path: the call is appended to the history of
\* the calls of the attempt.
Step(a, name, path) == [a EXCEPT !.steps = Append(@, [step |-> name, path |-> path])]

\* ingest's handler, lines 255-258: del_file(saved_file_name), then the 500
\* response; an exception raised by del_file leaves ingest.
IngestExcept(a0, fs, e, where) ==
  LET d == DelFile(fs, a0.saved_file_name)
      a == Step(a0, "del_file", a0.saved_file_name)
  IN  [files |-> d.files,
       att |-> IF d.raised # None
                 THEN [a EXCEPT !.pc = "raised", !.exc = d.raised, !.failed_at = where]
                 ELSE [a EXCEPT !.pc = "done", !.failed_at = where,
                                !.ret = Resp(500, "failed to ingest to parquet", 0, <<None>>, e)]]

\* What __execute_ingest_data returns reaches ingest's caller when the attempt
\* waits; a detached worker's return value reaches nobody.
Finish(a, r) ==
  [a EXCEPT !.pc = "done", !.out = r, !.ret = IF a.detached THEN a.ret ELSE r]

\* __execute_ingest_data's handler, lines 208-211.
ExecuteExcept(a0, fs, e, where) ==
  LET d == DelFile(fs, a0.saved_file_name)
      a == Step(a0, "del_file", a0.saved_file_name)
  IN  [files |-> d.files,
       att |-> IF d.raised # None
                 THEN [a EXCEPT !.pc = "raised", !.exc = d.raised, !.failed_at = where]
                 ELSE Finish([a EXCEPT !.failed_at = where],
                             Resp(500, "failed to ingest to parquet", 0, <<None>>, e))]

\* ingest, lines 229-237: the lookup of the existing record and the two
\* rejections. The lookup may raise (the store cannot be reached); it raises
\* for props without an s3_url, a key the table refuses.
CheckExisting(i) ==
  /\ att[i].pc = "start"
  /\ \E lookup_ok \in BOOLEAN :
       LET a == att[i]
           existing_record == GetByS3Url(store, a.s3_url)
           verdict == CheckExistingVerdict(IsItem(existing_record), a.is_replacing)
           h == IngestExcept([a EXCEPT !.found = "error"], files, "store unavailable", "lookup")
       IN  IF ~lookup_ok \/ a.s3_url = NoUrl
             THEN /\ att' = [att EXCEPT ![i] = h.att]
                  /\ files' = h.files
             ELSE /\ files' = files
                  /\ att' = [att EXCEPT ![i] =
                       LET b == [a EXCEPT !.found = IF IsItem(existing_record) THEN "found" ELSE "absent"]
                       IN  CASE verdict = "new" ->
                                  [b EXCEPT !.pc = "done",
                                            !.ret = Resp(500, "unable to replace file as it is new",
                                                         0, <<None>>, None)]
                             [] verdict = "duplicate" ->
                                  [b EXCEPT !.pc = "done",
                                            !.ret = Resp(500, "unable to ingest file as it is already ingested",
                                                         0, <<None>>, None)]
                             [] OTHER -> [b EXCEPT !.pc = "transfer"]]
  /\ UNCHANGED <<store, dirs, lake>>
  /\ UNCHANGED <<ddbVars, readVars, propsVars, gunzip>>

\* A faulty variant of Dispatch: the caller always waits for the pipeline.
DispatchAlwaysWaits(a) == [a EXCEPT !.pc = "transform"]

\* ingest, lines 250-254: __execute_ingest_data is called inline, or handed to
\* a daemon Process that is started, and the 204 response is returned.
Dispatch(a) ==
  IF a.wait_till_complete
    THEN [a EXCEPT !.pc = "transform"]
    ELSE [a EXCEPT !.pc = "transform", !.detached = TRUE,
                   !.ret = Resp(204, "ingesting. Not waiting.", a.uuid, <<None>>, None)]

\* What the environment of one Transfer step can do: mk_dir_p and the download
\* succeed or raise, gunzip ends in one of its outcomes, the client of the
\* side-car accepts its locator or raises (__get_s3_sha512, line 152, before
\* the try of line 153), and the side-car is missing or unreadable (whatever is
\* raised inside the try, lines 153-159) or carries some digest. A choice that
\* a failure makes irrelevant is fixed.
TransferEnvs ==
  {e \in [mkdir_ok : BOOLEAN, download_ok : BOOLEAN, gz : GunzipOutcomes,
          sha_url_ok : BOOLEAN, doc_digest : {NoSideCar} \cup Digests] :
     /\ ~e.mkdir_ok => e.download_ok
     /\ (~e.mkdir_ok \/ ~e.download_ok) => e.gz = "ok"
     /\ (~e.mkdir_ok \/ ~e.download_ok \/ e.gz # "ok") => e.sha_url_ok
     /\ (~e.mkdir_ok \/ ~e.download_ok \/ e.gz # "ok" \/ ~e.sha_url_ok) => e.doc_digest = NoSideCar}

\* ingest, lines 239-254: the working directory, the download and its digest,
\* the decompression of a gzipped object, the comparison with the side-car
\* digest, and the dispatch: inline, or to a detached worker process with the
\* 204 response returned at once.
Transfer(i) ==
  /\ att[i].pc = "transfer"
  /\ \E env \in TransferEnvs :
       LET mkdir_ok == env.mkdir_ok
           download_ok == env.download_ok
           gz == env.gz
           doc_digest == env.doc_digest
           a == Step(att[i], "mk_dir_p", NoPath)
           a1 == Step([a EXCEPT !.effects = @ \cup {"mkdir"}], "download", NoPath)
           saved == S3Download(a.working_dir, a.s3_url)
           a2 == Step([a1 EXCEPT !.saved_file_name = saved,
                                 !.file_sha512 = GetChecksum(saved),
                                 !.effects = @ \cup {"download"},
                                 !.artifacts = {saved}],
                      "get_checksum", saved)
           files1 == files \cup {saved}
           zipped == EndsWithGz(saved.name)
           g == GunzipFileOs(files1, saved, NoPath, gz)
           a2g == Step(a2, "gunzip_file_os", saved)
           a3 == IF zipped
                   THEN [a2g EXCEPT !.saved_file_name = g.path,
                                    !.artifacts = @ \cup (g.files \ files1)]
                   ELSE a2
           files2 == IF zipped THEN g.files ELSE files1
           doc == IF doc_digest = NoSideCar THEN NoSideCar ELSE SideCar(doc_digest, a.s3_url)
           cmp == CompareSha512(GetS3Sha512(doc, a.s3_url), a3.file_sha512)
           a4 == Step([a3 EXCEPT !.sha512_result = cmp.result, !.sha512_cause = cmp.cause,
                                 !.sidecar = doc_digest],
                      "compare_sha512", NoPath)
           h == IF ~mkdir_ok
                  THEN IngestExcept(a, files, "mkdir failed", "mkdir")
                  ELSE IF ~download_ok
                         THEN IngestExcept(a1, files, "download failed", "download")
                         ELSE IF zipped /\ g.raised # None
                                THEN IngestExcept([a2g EXCEPT !.artifacts = @ \cup (g.files \ files1)],
                                                  g.files, g.raised, "gunzip")
                                ELSE IngestExcept(a3, files2, "invalid s3 url", "sha_url")
       IN  IF ~mkdir_ok \/ ~download_ok \/ (zipped /\ g.raised # None) \/ ~env.sha_url_ok
             THEN /\ att' = [att EXCEPT ![i] = h.att]
                  /\ files' = h.files
                  /\ dirs' = IF mkdir_ok THEN dirs \cup {a.working_dir} ELSE dirs
             ELSE /\ dirs' = dirs \cup {a.working_dir}
                  /\ files' = files2
                  /\ att' = [att EXCEPT ![i] = Dispatch(a4)]
  /\ UNCHANGED <<store, lake>>
  /\ UNCHANGED <<ddbVars, readVars, propsVars, gunzip>>

\* __execute_ingest_data, lines 176-181: IngestNewJsonFile.ingest writes the
\* file's records to the data lake (mode overwrite when replacing, append
\* otherwise) and returns their number, or raises.
Transform(i) ==
  /\ att[i].pc = "transform"
  /\ \E transform_ok \in BOOLEAN :
       LET a == Step([att[i] EXCEPT !.effects = @ \cup {"transform"}],
                     "ingest", att[i].saved_file_name)
           missing == ~FileExist(files, a.saved_file_name)
           h == ExecuteExcept(a, files, IF missing THEN "ValueError" ELSE "transform failed",
                              "transform")
       IN  IF missing \/ ~transform_ok
             THEN /\ att' = [att EXCEPT ![i] = h.att]
                  /\ files' = h.files
                  /\ lake' = lake
             ELSE /\ att' = [att EXCEPT ![i] = [a EXCEPT !.pc = "record"]]
                  /\ files' = files
                  /\ lake' = lake \cup {[s3_url |-> a.s3_url, job_id |-> a.uuid,
                                         mode |-> IF a.is_replacing THEN "overwrite" ELSE "append"]}
  /\ UNCHANGED <<store, dirs>>
  /\ UNCHANGED <<ddbVars, readVars, propsVars, gunzip>>

\* __execute_ingest_data, lines 182-215: the record, the conditional put
\* (insert_record or replace_record), the deletion of the used file and the
\* 201 or 203 response; any exception is answered by the handler.
RecordMetadata(i) ==
  /\ att[i].pc = "record"
  /\ \E store_ok \in BOOLEAN :
       LET a == Step(att[i], "get_size", att[i].saved_file_name)
           missing == ~FileExist(files, a.saved_file_name)
           r == MetadataPut(store, NewRecord(a), a.s3_url, a.is_replacing)
           result == IF store_ok THEN r.result ELSE "store unavailable"
           b == Step([a EXCEPT !.effects = @ \cup {"put"}, !.puts = @ + 1,
                               !.put_result = result],
                     "put", NoPath)
           h == IF missing
                  THEN ExecuteExcept(a, files, "FileNotFoundError", "get_size")
                  ELSE ExecuteExcept(b, files, result, "put")
           d == DelFile(files, a.saved_file_name)
       IN  IF missing \/ result # "ok"
             THEN /\ att' = [att EXCEPT ![i] = h.att]
                  /\ files' = h.files
                  /\ store' = IF missing \/ ~store_ok THEN store ELSE r.tbl
             ELSE /\ store' = r.tbl
                  /\ files' = d.files
                  /\ att' = [att EXCEPT ![i] =
                       Finish(Step(b, "del_file", b.saved_file_name),
                              IF b.sha512_result = "True"
                                THEN Resp(201, "ingested", b.uuid, <<None>>, None)
                                ELSE Resp(203, "ingested, different sha512", b.uuid,
                                          b.sha512_cause, None))]
  /\ UNCHANGED <<dirs, lake>>
  /\ UNCHANGED <<ddbVars, readVars, propsVars, gunzip>>

Next ==
  \E i \in Attempts : CheckExisting(i) \/ Transfer(i) \/ Transform(i) \/ RecordMetadata(i)

Spec == Init /\ [][Next]_vars

(***************************************************************************)
(* Claims about AwsDdb.add_one_item, checked under SpecDdb.                *)
(***************************************************************************)
Done(c) == call[c].pc \in {"returned", "raised"}

\* The put carried a full key of the table (a range value where the table has
\* a range key), so the store evaluated its condition.
Evaluated(c) == Done(c) /\ call[c].result # "ValidationException"

\* c1 and c2 are the only calls that have put to the key of c1's item.
OnlyTheseTwo(c1, c2) ==
  \A c3 \in Callers \ {c1, c2} :
      ~(Evaluated(c3) /\ KeyOf(call[c3].item) = KeyOf(call[c1].item))

\* C2: of two add_one_item calls with replace=False on the same key, which the
\* table did not hold before, in every interleaving exactly one returns and the
\* other raises ConditionalCheckFailedException; the call has no step between
\* building its request and the one put_item request that decides it.
C2_ConditionalPutRace ==
  \A c1 \in Callers : \A c2 \in Callers \ {c1} :
     ( /\ Evaluated(c1) /\ Evaluated(c2)
       /\ ~call[c1].replace /\ ~call[c2].replace
       /\ KeyOf(call[c1].item) = KeyOf(call[c2].item)
       /\ ~IsItem(tbl0[KeyOf(call[c1].item)])
       /\ OnlyTheseTwo(c1, c2) )
     => \/ /\ call[c1].pc = "returned"
           /\ call[c2].pc = "raised"
           /\ call[c2].result = "ConditionalCheckFailedException"
        \/ /\ call[c2].pc = "returned"
           /\ call[c1].pc = "raised"
           /\ call[c1].result = "ConditionalCheckFailedException"

C2_Witness ==
  \E c1 \in Callers : \E c2 \in Callers \ {c1} :
     /\ Evaluated(c1) /\ Evaluated(c2)
     /\ ~call[c1].replace /\ ~call[c2].replace
     /\ KeyOf(call[c1].item) = KeyOf(call[c2].item)
     /\ ~IsItem(tbl0[KeyOf(call[c1].item)])
     /\ call[c1].pc = "returned"
     /\ call[c2].result = "ConditionalCheckFailedException"

\* C6: add_one_item with replace=True succeeds if and only if an item with the
\* same full key exists; otherwise it raises ConditionalCheckFailedException
\* and leaves the table unchanged, for hash-only tables and for tables with a
\* range key.
C6_ReplaceIffExists ==
  \A c \in Callers :
     (Evaluated(c) /\ call[c].replace)
     => /\ (call[c].pc = "returned") <=> call[c].existed
        /\ call[c].pc = "raised"
             => (call[c].result = "ConditionalCheckFailedException" /\ call[c].unchanged)

\* C7: add_one_item with replace=False succeeds if and only if no item with the
\* same full key exists; a collision raises ConditionalCheckFailedException and
\* leaves the table unchanged.
C7_InsertIffAbsent ==
  \A c \in Callers :
     (Evaluated(c) /\ ~call[c].replace)
     => /\ (call[c].pc = "returned") <=> ~call[c].existed
        /\ call[c].pc = "raised"
             => (call[c].result = "ConditionalCheckFailedException" /\ call[c].unchanged)

\* A put for (h, r2) returned while the table held (h, r1), and a put that
\* collided with an existing item was refused.
C7_Witness ==
  \E c1 \in Callers : \E c2 \in Callers \ {c1} :
     /\ rangeKey # None
     /\ Evaluated(c1) /\ ~call[c1].replace /\ call[c1].pc = "returned"
     /\ \E r1 \in RangeVals \ {call[c1].range_val} :
           IsItem(tbl0[<<call[c1].hash_val, r1>>])
     /\ Evaluated(c2) /\ ~call[c2].replace /\ call[c2].pc = "raised"
     /\ call[c2].existed /\ call[c2].unchanged

(***************************************************************************)
(* Claims about IngestAwsJson.ingest, checked under Spec.                  *)
(***************************************************************************)
\* The attempt has ended: ingest returned or raised and, when the work was
\* handed to a detached worker, the worker has ended too.
Terminated(i) == att[i].pc \in {"done", "raised"}

\* The (body, status) the pipeline of attempt i ended with: ingest's return
\* value, or the detached worker's.
Outcome(i) == IF att[i].detached THEN att[i].out ELSE att[i].ret

Success(i) == Terminated(i) /\ Outcome(i).status \in {201, 203}

\* The store evaluated the condition of the attempt's put.
PutEvaluated(i) ==
  Terminated(i) /\ att[i].put_result \in {"ok", "ConditionalCheckFailedException"}

\* The attempt ended with 500 because its conditional put failed, after one put.
LostThePut(i) ==
  /\ att[i].pc = "done"
  /\ Outcome(i).status = 500
  /\ att[i].put_result = "ConditionalCheckFailedException"
  /\ att[i].puts = 1

\* C1 as claimed: of two attempts on the same locator with the same
\* is_replacing flag, either value of it, that run their steps interleaved up
\* to their conditional puts, exactly one ends in success (201 or 203) and
\* the other with 500 caused by the conditional put failing, without a second
\* put. (Stated for attempts that wait, whose caller sees the status.)
C1_ExactlyOneWins ==
  \A i \in Attempts : \A j \in Attempts \ {i} :
     ( /\ att[i].s3_url = att[j].s3_url
       /\ att[i].is_replacing = att[j].is_replacing
       /\ att[i].wait_till_complete /\ att[j].wait_till_complete
       /\ PutEvaluated(i) /\ PutEvaluated(j) )
     => \/ Success(i) /\ LostThePut(j)
        \/ Success(j) /\ LostThePut(i)

\* The attempts without the replace flag whose put the store has evaluated.
Inserters == {i \in Attempts : ~att[i].is_replacing /\ PutEvaluated(i)}

\* C1 as amended: of the attempts with is_replacing=False on a locator that
\* got as far as their conditional put, exactly one ends in success and every
\* other one ends with 500 caused by the conditional put failing, having put
\* once.
C1_ExactlyOneInsertWins ==
  Cardinality(Inserters) >= 2
  => \E w \in Inserters :
        /\ Success(w)
        /\ \A l \in Inserters \ {w} : LostThePut(l)

C1_Witness ==
  \E w \in Inserters : \E l \in Inserters \ {w} : Success(w) /\ LostThePut(l)

\* C3: for any locator, IngestNewJsonFile.ingest completes at most once over
\* all ingest attempts with is_replacing=False on it.
C3_TransformAtMostOnce ==
  \A u \in Urls : Cardinality({w \in lake : w.s3_url = u /\ w.mode = "append"}) <= 1

\* Nothing in the working area, the data lake or the metadata table stems
\* from attempt i, and it called none of mk_dir_p, download, ingest, put.
NoSideEffect(i) ==
  /\ att[i].effects = {}
  /\ att[i].working_dir \notin dirs
  /\ \A f \in files : f.dir # att[i].working_dir
  /\ \A w \in lake : w.job_id # att[i].uuid
  /\ att[i].puts = 0
  /\ \A k \in DOMAIN store : store[k].body.job_id # att[i].uuid

\* C4: an ingest with is_replacing=False whose lookup finds a record returns
\* 500 (already ingested) and has no side effect.
C4_DuplicateRejected ==
  \A i \in Attempts :
     (att[i].found = "found" /\ ~att[i].is_replacing)
     => /\ att[i].pc = "done"
        /\ att[i].ret = Resp(500, "unable to ingest file as it is already ingested",
                             0, <<None>>, None)
        /\ NoSideEffect(i)

C4_Witness ==
  \E i \in Attempts :
     /\ att[i].found = "found" /\ ~att[i].is_replacing
     /\ att[i].pc = "done" /\ att[i].ret.status = 500
     /\ \E j \in Attempts \ {i} : Success(j)

\* C5: an ingest with is_replacing=True whose lookup finds no record returns
\* 500 (unable to replace) and has no side effect.
C5_ReplaceOnAbsentRejected ==
  \A i \in Attempts :
     (att[i].found = "absent" /\ att[i].is_replacing)
     => /\ att[i].pc = "done"
        /\ att[i].ret = Resp(500, "unable to replace file as it is new", 0, <<None>>, None)
        /\ NoSideEffect(i)

C5_Witness ==
  \E i \in Attempts :
     /\ att[i].found = "absent" /\ att[i].is_replacing
     /\ att[i].pc = "done" /\ att[i].ret.status = 500
     /\ \A k \in DOMAIN store : ~IsItem(store[k])

\* C8: when a synchronous ingest that went past CheckExisting has returned,
\* neither the downloaded file nor its decompressed replacement exists.
C8_CleanupInvariant ==
  \A i \in Attempts :
     (att[i].wait_till_complete /\ att[i].pc = "done")
     => att[i].artifacts \cap files = {}

\* C9: an attempt that fails before a working file exists (the lookup, mk_dir_p
\* or the download raises) returns 500 with a message and a details string.
C9_EarlyFailureAnswered ==
  \A i \in Attempts :
     (att[i].failed_at \in {"lookup", "mkdir", "download"})
     => /\ att[i].pc = "done"
        /\ att[i].ret.status = 500
        /\ att[i].ret.message # None
        /\ att[i].ret.details # None

\* C10: a successful synchronous ingest returns 201 with checksumVerified true
\* and an empty cause when the side-car digest equals the computed digest, 203
\* with checksumVerified false and a cause when it differs, 203 with the cause
\* 'missing S3 sha512' when there is no side-car; 201 only when verified.
C10_ChecksumBranching ==
  \A i \in Attempts :
     (att[i].wait_till_complete /\ Success(i))
     => LET a == att[i]
            rec == NewRecord(a)
        IN  /\ a.sidecar = a.file_sha512
                 => (a.ret.status = 201 /\ rec.checksum_validation = "True"
                     /\ rec.checksum_cause = <<>>)
            /\ (a.sidecar \in Digests /\ a.sidecar # a.file_sha512)
                 => (a.ret.status = 203 /\ rec.checksum_validation = "False"
                     /\ rec.checksum_cause # <<>> /\ a.ret.cause = rec.checksum_cause)
            /\ a.sidecar = NoSideCar
                 => (a.ret.status = 203 /\ a.ret.cause = <<"missing S3 sha512">>)
            /\ a.ret.status = 201 => rec.checksum_validation = "True"

(***************************************************************************)
(* Claims about the checksum verification and the record, under Spec.      *)
(***************************************************************************)
\* The attempt came to __get_s3_sha512 (line 249): the download, and the
\* decompression of a gzipped object, are behind it.
CameToVerifier(a) == a.sha512_result # None \/ a.failed_at = "sha_url"

\* The side-car digest the attempt met does not match the file's digest.
NonMatching(a) == a.sidecar # a.file_sha512

\* C11: the checksum verification never aborts the pipeline: whatever the
\* side-car fetch does (equal digest, different digest, no side-car, any
\* exception), no exception leaves the verifier, the transform is still
\* invoked, and a record written after a non-matching verification carries
\* checksum_validation False and a cause.
C11_ChecksumAdvisory ==
  \A i \in Attempts :
     /\ att[i].failed_at # "sha_url"
     /\ CameToVerifier(att[i]) =>
          (att[i].pc = "transform" \/ "transform" \in att[i].effects)
     /\ (att[i].put_result = "ok" /\ NonMatching(att[i])) =>
          /\ att[i].sha512_result = "False"
          /\ att[i].sha512_cause # <<>>

\* C12: a record that carries job id j is in the metadata table only if
\* IngestNewJsonFile.ingest has returned for job j and the record's object
\* before; an attempt that ends with 500 has written no record and its last
\* step left the table as it was.
C12_RecordOnlyAfterTransform ==
  /\ [](\A k \in DOMAIN store :
          (IsItem(store[k]) /\ store[k].body.job_id # 0)
          => \E w \in lake : w.job_id = store[k].body.job_id /\ w.s3_url = store[k].hash_key)
  /\ [](\A i \in Attempts :
          (Terminated(i) /\ Outcome(i).status = 500)
          => /\ att[i].put_result # "ok"
             /\ \A k \in DOMAIN store : store[k].body.job_id # att[i].uuid)
  /\ [][\A i \in Attempts :
          ( /\ att'[i] # att[i]
            /\ (IF att'[i].detached THEN att'[i].out ELSE att'[i].ret).status = 500 )
          => store' = store]_vars

\* An attempt transformed the object, lost the conditional put to another
\* attempt's record and ended with 500.
C12_Witness ==
  \E i \in Attempts : \E j \in Attempts \ {i} :
     /\ LostThePut(i)
     /\ "transform" \in att[i].effects
     /\ \E k \in DOMAIN store : IsItem(store[k]) /\ store[k].body.job_id = att[j].uuid

\* C13: the metadata table holds at most one record per locator in every
\* state, and the put of a successful replace-ingest leaves, under the locator,
\* the record of the replacing attempt: its job id and every other field.
C13_OneRecordPerLocator ==
  /\ [](\A u \in Urls :
          Cardinality({k \in DOMAIN store : IsItem(store[k]) /\ store[k].hash_key = u}) <= 1)
  /\ [][\A i \in Attempts :
          ( /\ att[i].pc = "record"
            /\ att[i].is_replacing
            /\ att'[i].pc = "done"
            /\ att'[i].put_result = "ok" )
          => store'[<<att[i].s3_url, None>>]
               = BuildItem(NewRecord(att[i]), att[i].s3_url, None, None)]_vars

\* A replacing attempt found the record of an earlier ingestion and succeeded;
\* the table holds its record.
C13_Witness ==
  \E i \in Attempts :
     /\ Success(i)
     /\ att[i].is_replacing
     /\ att[i].found = "found"
     /\ store[<<att[i].s3_url, None>>].body = NewRecord(att[i])

\* C14: every ingest invocation returns a (body, status) pair and never raises;
\* the status is one of 201, 203, 204, 500; a 201, 203 or 204 body carries the
\* job id, a 203 body also the cause, and every 500 body carries a message
\* and details.
C14_ResultEncodingTotal ==
  \A i \in Attempts :
     /\ ~(att[i].pc = "raised" /\ ~att[i].detached)
     /\ att[i].ret.status \in {0, 201, 203, 204, 500}
     /\ att[i].ret.status \in {201, 203, 204} => att[i].ret.job_id = att[i].uuid
     /\ att[i].ret.status = 203 => att[i].ret.cause # <<None>>
     /\ att[i].ret.status = 500 =>
          (att[i].ret.message # None /\ att[i].ret.details # None)

(***************************************************************************)
(* Claims about an attempt that does not wait (wait_till_complete False).  *)
(***************************************************************************)
\* One of the steps of the pipeline has been performed for the attempt.
SomeStepPerformed(a) == a.found # None \/ a.effects # {}

InitAsync ==
  /\ Init
  /\ \A a \in Attempts : ~att[a].wait_till_complete

SpecAsync ==
  /\ InitAsync
  /\ [][Next]_vars
  /\ \A i \in Attempts : WF_vars(Transform(i)) /\ WF_vars(RecordMetadata(i))

\* The worker of attempt i has returned and nothing the attempt put into the
\* working area is left.
WorkerCleanedUp(i) == Terminated(i) /\ att[i].artifacts \cap files = {}

\* C16: after ingest has returned 204, the detached worker eventually deletes
\* the working file on each of its paths (the transform succeeds and the put
\* succeeds, the transform fails, the put fails), and what the worker ends
\* with never reaches the caller.
C16_WorkerCleansUp ==
  /\ \A i \in Attempts : att[i].ret.status = 204 ~> WorkerCleanedUp(i)
  /\ [][\A i \in Attempts :
          att[i].ret.status = 204
          => /\ att'[i].ret = att[i].ret
             /\ att'[i].detached]_vars

\* The worker of an attempt answered with 204 lost its put, ended with 500 and
\* left no file; the caller still holds the 204.
C16_Witness ==
  \E i \in Attempts :
     /\ att[i].ret.status = 204
     /\ att[i].pc = "done"
     /\ att[i].out.status = 500
     /\ att[i].failed_at = "put"
     /\ att[i].artifacts # {}
     /\ att[i].artifacts \cap files = {}

(***************************************************************************)
(* Claims about the props of the attempts, under Spec.                     *)
(***************************************************************************)
\* C17: any two attempts, constructed with props of their own or with the
\* default props argument, replacing or not, have different job ids, so that
\* no two records or data-lake writes of different attempts share a job id.
C17_JobIdsUnique ==
  \A i \in Attempts : \A j \in Attempts \ {i} : att[i].uuid # att[j].uuid

\* The attempt has called the download into its working directory.
Downloads(a) == "download" \in a.effects

\* C18: any two attempts, also concurrent ones for the same locator, download
\* into different working directories, and the files an attempt downloads,
\* decompresses and deletes are its own: no file is an artifact of two
\* attempts, and a file in an attempt's working directory is that attempt's.
C18_WorkingDirExclusive ==
  \A i \in Attempts : \A j \in Attempts \ {i} :
     /\ (Downloads(att[i]) /\ Downloads(att[j])) => att[i].working_dir # att[j].working_dir
     /\ att[i].artifacts \cap att[j].artifacts = {}
     /\ \A f \in files : f.dir = att[i].working_dir => f \notin att[j].artifacts

\* Two attempts for the same locator hold their downloaded files at the same
\* time, each in its own directory.
C18_Witness ==
  \E i \in Attempts : \E j \in Attempts \ {i} :
     /\ att[i].s3_url = att[j].s3_url
     /\ att[i].pc = "transform" /\ att[j].pc = "transform"
     /\ att[i].saved_file_name \in files
     /\ att[j].saved_file_name \in files
     /\ att[i].saved_file_name # att[j].saved_file_name

(***************************************************************************)
(* aws/aws_ddb.py: the read paths of AwsDdb, one call on one table.        *)
(***************************************************************************)
InitRead ==
  /\ IdleDdb
  /\ IdleIngest
  /\ IdleProps
  /\ IdleGunzip
  /\ items \in ReadTables
  /\ read = IdleReadCall

\* The items of the table whose hash key value is Str(n): one or none.
ItemsWithId(t, n) ==
  LET Test(item) == DictGet(item, "id") = Str(n) IN SelectSeq(t, Test)

\* The items of the table but the one with hash key value Str(n).
ItemsWithoutId(t, n) ==
  LET Test(item) == DictGet(item, "id") # Str(n) IN SelectSeq(t, Test)

\* The call returns value.
ReadReturns(op, value) == [read EXCEPT !.pc = "returned", !.op = op, !.ret = value]

\* get_one_item, lines 199-215: None without an 'Item' in the response, else
\* the normalized item.
GetOneItemRead ==
  /\ read.pc = "idle"
  /\ \E n \in 1..MaxItems :
       LET found == ItemsWithId(items, n)
       IN  read' = ReadReturns("get_one_item",
                               IF found = <<>> THEN NoneVal ELSE ReplaceDecimals(found[1]))
  /\ UNCHANGED <<items, ddbVars, ingestVars, propsVars, gunzip>>

\* delete_one_item, lines 217-236: delete_item(ReturnValues='ALL_OLD'); None
\* without 'Attributes' in the response, else item_result['Attributes'] as
\* the store returned it.
DeleteOneItemRead ==
  /\ read.pc = "idle"
  /\ \E n \in 1..MaxItems :
       LET found == ItemsWithId(items, n)
       IN  /\ items' = ItemsWithoutId(items, n)
           /\ read' = ReadReturns("delete_one_item",
                                  IF found = <<>> THEN NoneVal ELSE found[1])
  /\ UNCHANGED <<ddbVars, ingestVars, propsVars, gunzip>>

\* update_one_item, lines 283-309: update_item sets the attribute (creating
\* the item when there is none) and returns the new item, or the old one when
\* retrieve_new_val is False; None without 'Attributes', else the normalized
\* attributes.
UpdateOneItemRead ==
  /\ read.pc = "idle"
  /\ \E n \in 1..MaxItems, retrieve_new_val \in BOOLEAN, nv \in {Dec(4, 0), Dec(4, 5)} :
       LET found == ItemsWithId(items, n)
           new == Item(n, nv)
       IN  /\ items' = IF found = <<>>
                         THEN Append(items, new)
                         ELSE [k \in DOMAIN items |->
                                 IF DictGet(items[k], "id") = Str(n) THEN new ELSE items[k]]
           /\ read' = ReadReturns("update_one_item",
                                  IF retrieve_new_val
                                    THEN ReplaceDecimals(new)
                                    ELSE IF found = <<>> THEN NoneVal
                                                         ELSE ReplaceDecimals(found[1]))
  /\ UNCHANGED <<ddbVars, ingestVars, propsVars, gunzip>>

\* get_from_index, lines 318-335, called with hash_dict {'v': 3} or {}: the
\* first value of hash_dict (IndexError when it is empty), then
\* Key(...).between(hash_val), a call of a method of two arguments with one:
\* TypeError before any query is sent.
GetFromIndexRead ==
  /\ read.pc = "idle"
  /\ \E has_entry \in BOOLEAN :
       read' = [read EXCEPT !.pc = "raised", !.op = "get_from_index",
                            !.cond = IF has_entry THEN "v EQ 3" ELSE None,
                            !.exc = IF has_entry THEN "TypeError" ELSE "IndexError"]
  /\ UNCHANGED <<items, ddbVars, ingestVars, propsVars, gunzip>>

\* One response of Table.scan is taken into the locals of scan_tbl.
ScanTaken(r, page) ==
  [r EXCEPT !.item_result = page,
            !.all_results = @ \o page.Items,
            !.pages = @ + 1,
            !.empty_pages = IF page.Items = <<>> THEN @ + 1 ELSE @]

\* scan_tbl, lines 266-273: the first request, Limit=1; its items start
\* all_results.
ScanFirst ==
  /\ read.pc = "idle"
  /\ \E cond \in ScanFilters, more \in BOOLEAN :
       \E e \in PageSizes(items, 0, FirstLimit) :
          /\ e = 0 => ~more
          /\ read' = ScanTaken([read EXCEPT !.pc = "loop", !.op = "scan_tbl", !.cond = cond],
                               ScanPage(items, cond, 0, e, more))
  /\ UNCHANGED <<items, ddbVars, ingestVars, propsVars, gunzip>>

\* scan_tbl, lines 274-280: one turn of the loop: the next request, Limit=100,
\* from the last evaluated key; its items extend all_results.
ScanNext ==
  /\ read.pc = "loop"
  /\ HasMore(read.item_result)
  /\ \E more \in BOOLEAN :
       \E e \in PageSizes(items, read.item_result.LastEvaluatedKey.key, NextLimit) :
          /\ e = 0 => ~more
          /\ read' = ScanTaken(read, ScanPage(items, read.cond,
                                              read.item_result.LastEvaluatedKey.key, e, more))
  /\ UNCHANGED <<items, ddbVars, ingestVars, propsVars, gunzip>>

\* scan_tbl, lines 274 and 281: the loop ends, the normalized all_results are
\* returned.
ScanReturn ==
  /\ read.pc = "loop"
  /\ ~HasMore(read.item_result)
  /\ read' = ReadReturns("scan_tbl", ReplaceDecimals(List(read.all_results)))
  /\ UNCHANGED <<items, ddbVars, ingestVars, propsVars, gunzip>>

NextRead ==
  \/ GetOneItemRead
  \/ DeleteOneItemRead
  \/ UpdateOneItemRead
  \/ GetFromIndexRead
  \/ ScanFirst
  \/ ScanNext
  \/ ScanReturn

SpecRead == InitRead /\ [][NextRead]_vars

(***************************************************************************)
(* Claims about the read paths of AwsDdb, checked under SpecRead.          *)
(***************************************************************************)
\* C19: whatever the table holds and however the store cuts the scan into
\* pages (first request Limit=1, later ones Limit=100, pages possibly empty),
\* the loop of scan_tbl takes another turn exactly while the last response
\* carried a continuation key and ends when it carried none, and the returned
\* list holds every matching item exactly once.
C19_ScanComplete ==
  /\ []((read.op = "scan_tbl" /\ read.pc = "returned")
        => read.ret = ReplaceDecimals(List(Matching(items, read.cond))))
  /\ [][(read.pc = "loop" /\ read'.pc = "loop")
        => read.item_result.LastEvaluatedKey.present]_vars
  /\ [][(read.pc = "loop" /\ read'.pc = "returned")
        => ~read.item_result.LastEvaluatedKey.present]_vars

\* A scan of three requests at least, one of them without a matching item,
\* returned two items or more.
C19_Witness ==
  /\ read.op = "scan_tbl"
  /\ read.pc = "returned"
  /\ read.pages >= 3
  /\ read.empty_pages >= 1
  /\ Len(read.ret.elems) >= 2
  /\ Len(read.ret.elems) < Len(items)

\* C20: every item returned by get_one_item, delete_one_item, update_one_item,
\* scan_tbl and get_from_index has gone through _replace_decimals: no Decimal
\* is left in it at any depth.
C20_NoDecimalReturned ==
  read.pc = "returned" => NoDecimal(read.ret)

\* y is x with the same shape (list lengths and order, dict keys), every
\* Decimal without fractional part replaced by the equal int, every other
\* Decimal by the float of its value, and everything else as it was.
RECURSIVE SameShapeNormalized(_, _)
SameShapeNormalized(x, y) ==
  IF x.cls \in {"list", "dict"}
    THEN /\ y.cls = x.cls
         /\ y.keys = x.keys
         /\ Len(y.elems) = Len(x.elems)
         /\ \A k \in 1..Len(x.elems) : SameShapeNormalized(x.elems[k], y.elems[k])
    ELSE IF x.cls = "Decimal"
           THEN /\ y.cls = (IF x.num[2] = 0 THEN "int" ELSE "float")
                /\ y.num = x.num
                /\ y.keys = <<>> /\ y.elems = <<>>
           ELSE y = x

\* C21: _replace_decimals returns, for a value built from scalars, lists and
\* dicts, a value of the same shape in which every Decimal with zero
\* fractional part is the equal int, every other Decimal a float and every
\* other scalar unchanged: the item get_one_item returns is the stored item
\* so normalized (a stored 3 comes back as int 3, a stored 3.5 as float 3.5).
C21_NormalizerShape ==
  (read.pc = "returned" /\ read.op = "get_one_item" /\ read.ret # NoneVal)
  => \E k \in DOMAIN items :
        /\ DictGet(items[k], "id") = DictGet(read.ret, "id")
        /\ SameShapeNormalized(items[k], read.ret)

\* get_one_item returned an item whose attribute, stored as the list of
\* Decimal 3 and Decimal 3.5, is the list [3, 3.5] of an int and a float.
C21_Witness ==
  /\ read.pc = "returned"
  /\ read.op = "get_one_item"
  /\ read.ret # NoneVal
  /\ DictGet(read.ret, "v") \in {List(<<PyInt(3), PyFloat(3, 5)>>)}
  /\ \E k \in DOMAIN items : DictGet(items[k], "v") = List(<<Dec(3, 0), Dec(3, 5)>>)

(***************************************************************************)
(* The configuration of the store: a caller builds an AwsDdbProps, sets    *)
(* its fields, constructs clients and probes the table.                    *)
(***************************************************************************)
InitProps ==
  /\ IdleDdb
  /\ IdleIngest
  /\ IdleRead
  /\ IdleProps
  /\ IdleGunzip

\* tbl_name setter, lines 41-48.
SetTblName(val) ==
  /\ ddbProps' = [ddbProps EXCEPT !.tbl_name = val]
  /\ pcall' = [IdlePropsCall EXCEPT !.op = "tbl_name", !.val = val]
  /\ UNCHANGED <<client, ddbVars, ingestVars, readVars, gunzip>>

\* hash_key setter, lines 54-61.
SetHashKey(val) ==
  /\ ddbProps' = [ddbProps EXCEPT !.hash_key = val]
  /\ pcall' = [IdlePropsCall EXCEPT !.op = "hash_key", !.val = val]
  /\ UNCHANGED <<client, ddbVars, ingestVars, readVars, gunzip>>

\* range_key setter, lines 67-74.
SetRangeKey(val) ==
  /\ ddbProps' = [ddbProps EXCEPT !.range_key = val]
  /\ pcall' = [IdlePropsCall EXCEPT !.op = "range_key", !.val = val]
  /\ UNCHANGED <<client, ddbVars, ingestVars, readVars, gunzip>>

\* hash_key_type setter, lines 80-89.
SetHashKeyType(val) ==
  /\ IF IsValidKeyType(val)
       THEN /\ ddbProps' = [ddbProps EXCEPT !.hash_key_type = val]
            /\ pcall' = [IdlePropsCall EXCEPT !.op = "hash_key_type", !.val = val]
       ELSE /\ ddbProps' = ddbProps
            /\ pcall' = [IdlePropsCall EXCEPT !.op = "hash_key_type", !.val = val,
                                              !.raised = "ValueError"]
  /\ UNCHANGED <<client, ddbVars, ingestVars, readVars, gunzip>>

\* range_key_type setter, lines 95-104.
SetRangeKeyType(val) ==
  /\ IF IsValidKeyType(val)
       THEN /\ ddbProps' = [ddbProps EXCEPT !.range_key_type = val]
            /\ pcall' = [IdlePropsCall EXCEPT !.op = "range_key_type", !.val = val]
       ELSE /\ ddbProps' = ddbProps
            /\ pcall' = [IdlePropsCall EXCEPT !.op = "range_key_type", !.val = val,
                                              !.raised = "ValueError"]
  /\ UNCHANGED <<client, ddbVars, ingestVars, readVars, gunzip>>

\* AwsDdb.__init__, lines 107-112: the client keeps the props object it was
\* given, or the one of the default argument.
NewClient(c, ref) ==
  /\ client[c] = None
  /\ client' = [client EXCEPT ![c] = ref]
  /\ pcall' = [IdlePropsCall EXCEPT !.op = "AwsDdb", !.val = ref, !.client = c]
  /\ UNCHANGED <<ddbProps, ddbVars, ingestVars, readVars, gunzip>>

\* has_table, lines 114-122, with what describe_table answers.
HasTable(c, answer) ==
  /\ client[c] # None
  /\ LET r == HasTableResult(PropsOf(client[c], ddbProps).tbl_name, answer)
     IN  pcall' = [IdlePropsCall EXCEPT !.op = "has_table", !.client = c,
                     !.answer = IF r.raised = "ValueError" THEN None ELSE answer,
                     !.ret = r.ret, !.raised = r.raised]
  /\ UNCHANGED <<ddbProps, client, ddbVars, ingestVars, readVars, gunzip>>

NextProps ==
  \/ \E val \in TblNames : SetTblName(val)
  \/ \E val \in KeyNames : SetHashKey(val)
  \/ \E val \in KeyNames : SetRangeKey(val)
  \/ \E val \in KeyTypeArgs : SetHashKeyType(val)
  \/ \E val \in KeyTypeArgs : SetRangeKeyType(val)
  \/ \E c \in Clients, ref \in {"props", "default"} : NewClient(c, ref)
  \/ \E c \in Clients, answer \in DescribeAnswers : HasTable(c, answer)

SpecProps == InitProps /\ [][NextProps]_vars

\* C22: has_table returns None only when describe_table answered that the
\* table was not found; every other failure of describe_table reaches the
\* caller as an error.
C22_AbsentOnlyWhenNotFound ==
  (pcall.op = "has_table" /\ pcall.answer \notin {None, "ok"})
  => IF pcall.answer = "ResourceNotFoundException"
       THEN pcall.ret = None /\ pcall.raised = None
       ELSE pcall.raised # None

\* C23: the two key types are always one of 'S', 'N', 'B', starting as 'S';
\* a type setter called with another value raises at once and leaves the
\* type that was configured.
C23_KeyTypesValid ==
  /\ [](/\ ddbProps.hash_key_type \in VALID_KEY_TYPE
        /\ ddbProps.range_key_type \in VALID_KEY_TYPE)
  /\ ddbProps.hash_key_type = "S" /\ ddbProps.range_key_type = "S"
  /\ [][\A val \in KeyTypeArgs \ VALID_KEY_TYPE :
          (SetHashKeyType(val) \/ SetRangeKeyType(val))
          => /\ pcall'.raised = "ValueError"
             /\ ddbProps'.hash_key_type = ddbProps.hash_key_type
             /\ ddbProps'.range_key_type = ddbProps.range_key_type]_vars

\* A setter was called with a value that is no key type, after another type
\* than the initial one had been configured.
C23_Witness ==
  /\ pcall.op = "hash_key_type" /\ pcall.val = "X" /\ pcall.raised = "ValueError"
  /\ ddbProps.hash_key_type = "N"

\* C24: once a client is constructed, no call on the props object changes
\* the table name, the key names or the key types that the client uses.
C24_SchemaImmutable ==
  [][\A c \in Clients :
       client[c] # None
       => PropsOf(client'[c], ddbProps') = PropsOf(client[c], ddbProps)]_vars

\* C25: get_from_index(index_name, {attr: v}) is an equality lookup: it
\* returns normally, and returns exactly the items whose attr equals v.
C25_IndexLookupEquality ==
  (read.op = "get_from_index" /\ read.cond = "v EQ 3")
  => /\ read.pc = "returned"
     /\ read.ret = ReplaceDecimals(List(Matching(items, read.cond)))

\* The positions of the calls of step name in the history of attempt i.
CallsOf(i, name) == {k \in 1..Len(att[i].steps) : att[i].steps[k].step = name}

\* Every call of step y of attempt i comes after a call of step x.
Precedes(i, x, y) == \A j \in CallsOf(i, y) : \E k \in CallsOf(i, x) : k < j

\* The path of the object attempt i downloads, and the path of its
\* decompressed form.
Transferred(i) == S3Download(att[i].working_dir, att[i].s3_url)

Decompressed(i) == [Transferred(i) EXCEPT !.name = SubSeq(@, 1, Len(@) - 1)]

\* The name of the transferred file ends in '.gz', in whatever case.
NamedGz(i) ==
  LET name == Transferred(i).name
  IN  Len(name) > 0 /\ Lower(name)[Len(name)] = ".gz"

\* C26: in every attempt the digest is taken of the transferred file, in the
\* call that follows the download, and before the decompression; for a name
\* that ends in '.gz' in whatever case the decompression precedes the
\* comparison of the digests and the transformation, and the transformation,
\* the measure of the size and the deletion that follow are made on the
\* decompressed path; the put follows the transformation and precedes every
\* deletion, and a successful attempt ends with transformation, put, deletion.
C26_StepOrder ==
  \A i \in Attempts :
    LET st == att[i].steps
    IN  /\ \A k \in CallsOf(i, "download") :
              att[i].failed_at # "download"
              => /\ k < Len(st)
                 /\ st[k + 1] = [step |-> "get_checksum", path |-> Transferred(i)]
        /\ Precedes(i, "get_checksum", "gunzip_file_os")
        /\ \A k \in CallsOf(i, "gunzip_file_os") : st[k].path = Transferred(i)
        /\ NamedGz(i)
           => /\ Precedes(i, "gunzip_file_os", "compare_sha512")
              /\ Precedes(i, "gunzip_file_os", "ingest")
              /\ \A k \in CallsOf(i, "ingest") :
                    /\ st[k].path = Decompressed(i)
                    /\ st[k].path # Transferred(i)
                    /\ \A j \in CallsOf(i, "get_size") \cup CallsOf(i, "del_file") :
                          j > k => st[j].path = Decompressed(i)
        /\ Precedes(i, "ingest", "put")
        /\ \A p \in CallsOf(i, "put") : \A d \in CallsOf(i, "del_file") : p < d
        /\ (att[i].pc = "done" /\ att[i].out.status \in {201, 203})
           => \E t \in CallsOf(i, "ingest"), p \in CallsOf(i, "put"),
                 d \in CallsOf(i, "del_file") : t < p /\ p < d /\ d = Len(st)

\* An object with the suffix '.GZ' was ingested to the end: decompressed,
\* transformed, recorded, and its decompressed file deleted.
C26_Witness ==
  \E i \in Attempts :
     /\ NamedGz(i)
     /\ att[i].pc = "done"
     /\ att[i].out.status = 201
     /\ CallsOf(i, "gunzip_file_os") # {}
     /\ att[i].steps[Len(att[i].steps)] = [step |-> "del_file", path |-> Decompressed(i)]
     /\ Decompressed(i) \notin files

(***************************************************************************)
(* utils/file_utils.py: gunzip_file_os called on a working directory, with *)
(* and without an output path.                                             *)
(***************************************************************************)
\* The compressed files a caller may name.
ZippedPaths == {[dir |-> 1, name |-> <<"j", ".gz">>], [dir |-> 1, name |-> <<"a", ".GZ">>]}

\* The output paths a caller may give: none, a path of its own, the path
\* gunzip writes to by itself, and the path of the compressed file.
OutputPaths ==
  {NoPath, [dir |-> 1, name |-> <<"o">>], [dir |-> 1, name |-> <<"j">>],
   [dir |-> 1, name |-> <<"j", ".gz">>]}

\* zipped_file_path[:-3]
DefaultOutputPath(zipped) == [zipped EXCEPT !.name = SubSeq(@, 1, Len(@) - 1)]

InitGunzip ==
  /\ IdleDdb
  /\ IdleRead
  /\ IdleProps
  /\ IdleGunzip
  /\ store = [k \in {<<u, None>> : u \in Urls} |-> NoRecord]
  /\ dirs = {1}
  /\ lake = {}
  /\ att = [a \in Attempts |-> NewAttempt(a, S3Prefix \o <<"j">>, FALSE, TRUE)]
  /\ files \in SUBSET (ZippedPaths \cup {[dir |-> 1, name |-> <<"o">>]})

\* FileUtils.gunzip_file_os(zipped, output), lines 32-46. The gunzip process
\* does not overwrite an existing file silently: it writes to stderr.
GunzipCall(zipped, output, outcome) ==
  /\ (DefaultOutputPath(zipped) \in files /\ zipped \in files) => outcome # "ok"
  /\ LET g == GunzipFileOs(files, zipped, output, outcome)
     IN  /\ files' = g.files
         /\ gunzip' = [called |-> TRUE, zipped |-> zipped, output |-> output,
                       outcome |-> IF zipped \in files THEN outcome ELSE None,
                       raised |-> g.raised, path |-> g.path]
  /\ UNCHANGED <<store, dirs, lake, att, ddbVars, readVars, propsVars>>

NextGunzip ==
  \E zipped \in ZippedPaths, output \in OutputPaths, outcome \in GunzipOutcomes :
     GunzipCall(zipped, output, outcome)

SpecGunzip == InitGunzip /\ [][NextGunzip]_vars

\* C27: whenever gunzip_file_os returns, with or without an output path, a
\* file exists at the path it returns and the compressed file is gone.
C27_ReturnedPathExists ==
  (gunzip.called /\ gunzip.raised = None)
  => /\ FileExist(files, gunzip.path)
     /\ ~FileExist(files, gunzip.zipped)

====
